---- MODULE Spec2Model ----
(***************************************************************************)
(* Model of the ChatPage component (frontend chat page): the React state   *)
(* messages / input / loading / error, the form's event handlers and the   *)
(* asynchronous sendMessage function with its two await points             *)
(* (await fetch, await response.json()).                                   *)
(*                                                                         *)
(* Text is modelled as a sequence of one-character strings so that         *)
(* String.prototype.trim can be computed.  Updates made by a handler are   *)
(* committed by React before the browser dispatches the next event, so     *)
(* the rendered `disabled` attributes always equal the `loading` state     *)
(* at the moment an event is dispatched.                                   *)
(***************************************************************************)
EXTENDS Naturals, Sequences, FiniteSets, TLC

VARIABLES
    messages,   \* useState: the conversation log
    input,      \* useState: value of the input field
    loading,    \* useState: a message is being processed
    error,      \* useState: error text, "" when none
    now,        \* the reading Date.now() returns
    calls,      \* sendMessage invocations suspended at an await
    requests,   \* bodies of the fetch() calls issued so far, in order
    unhandled,  \* number of sendMessage promises that were rejected
    event       \* the handler step that produced this state

vars == <<messages, input, loading, error, now, calls, requests, unhandled, event>>

----------------------------------------------------------------------------
(* Bounds of the model. *)

MaxExchanges == 2

MaxClock == 1

----------------------------------------------------------------------------
(* Text and the values the environment supplies. *)

Whitespace == {" ", "\t"}

\* The value `undefined` (a property that is absent).
Undefined == <<"undefined">>

\* Values the user can leave in the text field (e.target.value).
InputTexts == { <<>>, <<" ">>, <<"x">>, <<" ", "y", "\t">> }

\* Reply texts the service can put in the `response` field.
ReplyTexts == { <<>>, <<"h", "i">> }

\* HTTP statuses the service can answer with.
Statuses == {200, 299, 300, 500}

\* Messages of the TypeError fetch() rejects with on a transport failure.
NetworkErrorMessages == {"Failed to fetch"}

RECURSIVE TrimStart(_)
TrimStart(s) ==
    IF s = <<>> THEN <<>>
    ELSE IF Head(s) \in Whitespace THEN TrimStart(Tail(s))
    ELSE s

RECURSIVE TrimEnd(_)
TrimEnd(s) ==
    IF s = <<>> THEN <<>>
    ELSE IF s[Len(s)] \in Whitespace THEN TrimEnd(SubSeq(s, 1, Len(s) - 1))
    ELSE s

\* String.prototype.trim
Trim(s) == TrimEnd(TrimStart(s))

IsBlankUntrimmed(s) == s = <<>>

\* `!input.trim()`: the empty string is the only falsy string.
IsBlank(s) == Trim(s) = <<>>

----------------------------------------------------------------------------
(* Values built by sendMessage. *)

\* Date.now().toString()
NewId(t) == ToString(t)

UserMessageTrimmed(text, t) == [id |-> NewId(t), role |-> "user", content |-> Trim(text)]

UserMessage(text, t) == [id |-> NewId(t), role |-> "user", content |-> text]

AssistantMessageOtherField(data, t) ==
    [id |-> NewId(t), role |-> "assistant", content |-> Undefined]

AssistantMessage(data, t) ==
    [id |-> NewId(t), role |-> "assistant", content |-> data.response]

Prepended(prev, m) == <<m>> \o prev

\* setMessages((prev) => [...prev, m])
AppendMessage(prev, m) == Append(prev, m)

PayloadWithHistory(userMessage, prev) == [messages |-> Append(prev, userMessage)]

\* const payload = { messages: [userMessage] }
Payload(userMessage, prev) == [messages |-> <<userMessage>>]

\* JSON.stringify(payload): the own properties of every message, in order.
JSONStringify(p) ==
    [messages |-> [k \in 1..Len(p.messages) |->
        [id |-> p.messages[k].id,
         role |-> p.messages[k].role,
         content |-> p.messages[k].content]]]

\* Bodies a response can carry: text that is not JSON, the JSON value null,
\* or a JSON object whose `response` field is a text or is absent.
Bodies ==
    { [kind |-> "invalid", response |-> Undefined],
      [kind |-> "null", response |-> Undefined] }
    \cup { [kind |-> "object", response |-> r] : r \in ReplyTexts \cup {Undefined} }

NoResponse == [status |-> 0, body |-> [kind |-> "none", response |-> Undefined]]

\* What fetch() settles with: a rejection (transport failure) or a Response.
FetchOutcomes ==
    { [rejected |-> TRUE, reason |-> m, response |-> NoResponse] :
        m \in NetworkErrorMessages }
    \cup { [rejected |-> FALSE, reason |-> "", response |-> [status |-> st, body |-> b]] :
        st \in Statuses, b \in Bodies }

\* Response.ok
Ok(response) == response.status >= 200 /\ response.status <= 299

\* new Error(`HTTP error! Status: ${response.status}`)
HttpError(response) ==
    [isError |-> TRUE, message |-> "HTTP error! Status: " \o ToString(response.status)]

\* The TypeError fetch() rejects with.
TransportError(m) == [isError |-> TRUE, message |-> m]

\* response.json(): rejects with a SyntaxError when the body is not JSON.
ParseJSON(body) ==
    IF body.kind = "invalid"
    THEN [ok |-> FALSE, data |-> body,
          err |-> [isError |-> TRUE, message |-> "Unexpected end of JSON input"]]
    ELSE [ok |-> TRUE, data |-> body, err |-> [isError |-> FALSE, message |-> ""]]

\* Reading data.response throws a TypeError when data is null.
NullAccessError ==
    [isError |-> TRUE, message |-> "Cannot read properties of null (reading 'response')"]

\* err instanceof Error ? err.message : "Something went wrong."
ErrorText(err) == IF err.isError THEN err.message ELSE "Something went wrong."

Normal == [type |-> "normal", value |-> [isError |-> FALSE, message |-> ""]]

Throw(err) == [type |-> "throw", value |-> err]

CatchesNothing(completion) == FALSE

\* catch (err: unknown): the clause takes every thrown value and rethrows none.
Catches(completion) == completion.type = "throw"

LoadingAfterTryOnly(completion, was) == IF completion.type = "throw" THEN was ELSE FALSE

\* finally { setLoading(false) }: the value of `loading` once the invocation
\* has completed, `was` being its value before.
LoadingAfter(completion, was) == FALSE

\* The sequence q without its i-th element.
Remove(q, i) == SubSeq(q, 1, i - 1) \o SubSeq(q, i + 1, Len(q))

----------------------------------------------------------------------------
(* The rendered form. *)

NeverDisabled == FALSE

\* disabled={loading}, on the Input and on the Button
Disabled == loading

InputDisabled == Disabled

ButtonDisabled == Disabled

----------------------------------------------------------------------------
Init ==
    /\ messages = <<>>
    /\ input = <<>>
    /\ loading = FALSE
    /\ error = ""
    /\ now = 0
    /\ calls = <<>>
    /\ requests = <<>>
    /\ unhandled = 0
    /\ event = "init"

\* The clock advances.
Tick ==
    /\ now < MaxClock
    /\ now' = now + 1
    /\ event' = "tick"
    /\ UNCHANGED <<messages, input, loading, error, calls, requests, unhandled>>

\* onChange of the Input; a disabled input receives no user input.
HandleInputChange(text) ==
    IF InputDisabled
    THEN /\ event' = "inputDisabled"
         /\ UNCHANGED <<messages, input, loading, error, now, calls, requests, unhandled>>
    ELSE /\ input' = text
         /\ event' = "input"
         /\ UNCHANGED <<messages, loading, error, now, calls, requests, unhandled>>

SendMessageKeepsError ==
    IF IsBlank(input)
    THEN /\ event' = "submitEmpty"
         /\ UNCHANGED <<messages, input, loading, error, now, calls, requests, unhandled>>
    ELSE /\ Len(requests) < MaxExchanges
         /\ LET userMessage == UserMessage(input, now) IN
              /\ messages' = AppendMessage(messages, userMessage)
              /\ requests' = Append(requests, JSONStringify(Payload(userMessage, messages)))
         /\ input' = <<>>
         /\ loading' = TRUE
         /\ calls' = Append(calls, [stage |-> "fetch", response |-> NoResponse])
         /\ event' = "submit"
         /\ UNCHANGED <<error, now, unhandled>>

\* sendMessage up to its first await.
SendMessage ==
    IF IsBlank(input)
    THEN /\ event' = "submitEmpty"
         /\ UNCHANGED <<messages, input, loading, error, now, calls, requests, unhandled>>
    ELSE /\ Len(requests) < MaxExchanges
         /\ LET userMessage == UserMessage(input, now) IN
              /\ messages' = AppendMessage(messages, userMessage)
              /\ requests' = Append(requests, JSONStringify(Payload(userMessage, messages)))
         /\ input' = <<>>
         /\ loading' = TRUE
         /\ error' = ""
         /\ calls' = Append(calls, [stage |-> "fetch", response |-> NoResponse])
         /\ event' = "submit"
         /\ UNCHANGED <<now, unhandled>>

\* The user presses Send (or Enter): a disabled submit button submits nothing.
HandleSubmit ==
    IF ButtonDisabled
    THEN /\ event' = "submitDisabled"
         /\ UNCHANGED <<messages, input, loading, error, now, calls, requests, unhandled>>
    ELSE SendMessage

SettleWithRetry(i, completion, log) ==
    IF completion.type = "throw" /\ Len(requests) < MaxExchanges
    THEN /\ requests' = Append(requests, requests[Len(requests)])
         /\ calls' = [calls EXCEPT ![i] = [stage |-> "fetch", response |-> NoResponse]]
         /\ event' = "retry"
         /\ UNCHANGED <<messages, input, loading, error, now, unhandled>>
    ELSE /\ messages' = log
         /\ error' = IF Catches(completion) THEN ErrorText(completion.value) ELSE error
         /\ loading' = LoadingAfter(completion, loading)
         /\ calls' = Remove(calls, i)
         /\ unhandled' = IF completion.type = "throw" /\ ~Catches(completion)
                         THEN unhandled + 1 ELSE unhandled
         /\ event' = IF completion.type = "throw" THEN "failed" ELSE "reply"
         /\ UNCHANGED <<input, now, requests>>

\* catch and finally of sendMessage, for the i-th suspended invocation whose
\* try block completed with `completion`, the log being `log` by then.
Settle(i, completion, log) ==
    /\ messages' = log
    /\ error' = IF Catches(completion) THEN ErrorText(completion.value) ELSE error
    /\ loading' = LoadingAfter(completion, loading)
    /\ calls' = Remove(calls, i)
    /\ unhandled' = IF completion.type = "throw" /\ ~Catches(completion)
                    THEN unhandled + 1 ELSE unhandled
    /\ event' = IF completion.type = "throw" THEN "failed" ELSE "reply"
    /\ UNCHANGED <<input, now, requests>>

\* await fetch(...) settles, followed by the response.ok check.
FetchSettles(i, outcome) ==
    /\ calls[i].stage = "fetch"
    /\ IF outcome.rejected
       THEN Settle(i, Throw(TransportError(outcome.reason)), messages)
       ELSE IF ~Ok(outcome.response)
       THEN Settle(i, Throw(HttpError(outcome.response)), messages)
       ELSE /\ calls' = [calls EXCEPT ![i] = [stage |-> "json", response |-> outcome.response]]
            /\ event' = "fetched"
            /\ UNCHANGED <<messages, input, loading, error, now, requests, unhandled>>

\* await response.json() settles, followed by the assistant append.
JsonSettles(i) ==
    /\ calls[i].stage = "json"
    /\ LET parsed == ParseJSON(calls[i].response.body) IN
         IF ~parsed.ok
         THEN Settle(i, Throw(parsed.err), messages)
         ELSE IF parsed.data.kind = "null"
         THEN Settle(i, Throw(NullAccessError), messages)
         ELSE Settle(i, Normal, AppendMessage(messages, AssistantMessage(parsed.data, now)))

Next ==
    \/ Tick
    \/ \E text \in InputTexts : HandleInputChange(text)
    \/ HandleSubmit
    \/ \E i \in 1..Len(calls) : \E outcome \in FetchOutcomes : FetchSettles(i, outcome)
    \/ \E i \in 1..Len(calls) : JsonSettles(i)

Spec == Init /\ [][Next]_vars

\* The completion service eventually answers or fails each request.
FairSpec ==
    /\ Spec
    /\ WF_vars(\E i \in 1..Len(calls) : \E outcome \in FetchOutcomes : FetchSettles(i, outcome))
    /\ WF_vars(\E i \in 1..Len(calls) : JsonSettles(i))

----------------------------------------------------------------------------
(* Vocabulary of the properties. *)

\* The steps in which the user submits the form.
SubmitEvents == {"submit", "submitEmpty", "submitDisabled"}

\* The text is empty or consists of whitespace only.
WhitespaceOnly(s) == \A k \in 1..Len(s) : s[k] \in Whitespace

IsPrefix(a, b) == Len(a) <= Len(b) /\ SubSeq(b, 1, Len(a)) = a

Last(q) == q[Len(q)]

\* This step completes the i-th suspended invocation.
Completes(i) == i \in 1..Len(calls) /\ calls' = Remove(calls, i)

----------------------------------------------------------------------------
\* C1 (single-flight): at most one request awaits its response, and a submit
\* made while loading appends no message and issues no request.
SingleFlight ==
    /\ [](Len(calls) <= 1)
    /\ [][(loading /\ event' \in SubmitEvents) =>
            (messages' = messages /\ requests' = requests /\ calls' = calls)]_vars

\* A submit was attempted while the one request of "x" was still in flight.
SingleFlightWitness ==
    /\ event = "submitDisabled"
    /\ loading
    /\ Len(calls) = 1
    /\ Len(requests) = 1
    /\ Len(messages) = 1
    /\ messages[1].content = <<"x">>

\* C2 (empty guard): a submit with empty or whitespace-only input changes
\* neither the log, the input, loading, the error nor the requests.
EmptyGuard ==
    [][(event' \in SubmitEvents /\ WhitespaceOnly(input)) =>
        UNCHANGED <<messages, input, loading, error, calls, requests>>]_vars

\* A whitespace-only input was submitted while an error was shown.
EmptyGuardWitness ==
    /\ event = "submitEmpty"
    /\ input = <<" ">>
    /\ error # ""
    /\ Len(messages) = 1

\* C3 (append-only): every step leaves the previous log as a prefix of the
\* new one, so entries are never removed, reordered or changed.
AppendOnly == [][IsPrefix(messages, messages')]_vars

\* The log has grown through a failed and a successful exchange.
AppendOnlyWitness ==
    /\ Len(messages) = 3
    /\ messages[1].role = "user"
    /\ messages[2].role = "user"
    /\ messages[3].role = "assistant"

\* C4 (failed exchange): when the fetch of an accepted submit is rejected or
\* answered with a non-success status, the log is left as it is with the
\* user message last, the error text becomes non-empty and the rejection
\* does not leave sendMessage.
FailedExchange ==
    [][\A i \in 1..Len(calls) :
        (calls[i].stage = "fetch" /\ Completes(i)) =>
            /\ messages' = messages
            /\ Last(messages').role = "user"
            /\ Last(messages').content = Last(requests).messages[1].content
            /\ error' # ""
            /\ unhandled' = unhandled]_vars

\* The second of two requests failed in transport; both user messages stay.
FailedExchangeWitness ==
    /\ event = "failed"
    /\ error = "Failed to fetch"
    /\ Len(messages) = 2
    /\ messages[1].role = "user"
    /\ messages[2].role = "user"
    /\ unhandled = 0

\* C5 (idle recovery): every step that completes an exchange, failed ones
\* included, leaves loading false; loading is false whenever an error is
\* shown; and a submit of non-blank input made while not loading appends the
\* user message, clears the error, sets loading and issues one request.
IdleRecovery ==
    /\ [][(event' = "failed" \/ \E i \in 1..Len(calls) : Completes(i)) => ~loading']_vars
    /\ [](error # "" => ~loading)
    /\ [][(~loading /\ ~WhitespaceOnly(input) /\ event' \in SubmitEvents) =>
            /\ Len(messages') = Len(messages) + 1
            /\ IsPrefix(messages, messages')
            /\ Last(messages').role = "user"
            /\ Last(messages').content = input
            /\ error' = ""
            /\ loading'
            /\ Len(requests') = Len(requests) + 1
            /\ Len(calls') = Len(calls) + 1]_vars

\* A submit was accepted right after a failed exchange.
IdleRecoveryWitness ==
    /\ event = "submit"
    /\ loading
    /\ error = ""
    /\ Len(messages) = 2
    /\ messages[1].role = "user"
    /\ messages[2].role = "user"
    /\ Len(requests) = 2

\* C6 (successful exchange): when a success response carries a reply text r,
\* exactly one assistant message with content r is appended, loading becomes
\* false and the error stays empty.
SuccessfulExchange ==
    [][\A i \in 1..Len(calls) :
        ( /\ calls[i].stage = "json"
          /\ calls[i].response.body.kind = "object"
          /\ calls[i].response.body.response \in ReplyTexts
          /\ Completes(i) ) =>
            /\ Len(messages') = Len(messages) + 1
            /\ IsPrefix(messages, messages')
            /\ Last(messages').role = "assistant"
            /\ Last(messages').content = calls[i].response.body.response
            /\ ~loading'
            /\ error = ""
            /\ error' = ""]_vars

\* The reply "hi" was appended after the user's message.
SuccessfulExchangeWitness ==
    /\ event = "reply"
    /\ ~loading
    /\ error = ""
    /\ Len(messages) = 2
    /\ messages[1].role = "user"
    /\ messages[2] = [id |-> messages[2].id, role |-> "assistant", content |-> <<"h", "i">>]

\* The body of a success response carries no reply field.
LacksReply(body) == body.kind # "object" \/ body.response = Undefined

\* C7 (malformed reply is a failure): a success response whose body lacks the
\* reply field appends no message and sets a non-empty error text.
MalformedReplyIsFailure ==
    [][\A i \in 1..Len(calls) :
        ( /\ calls[i].stage = "json"
          /\ LacksReply(calls[i].response.body)
          /\ Completes(i) ) =>
            (messages' = messages /\ error' # "")]_vars

\* C8 (request payload): the request issued by an accepted submit carries
\* exactly one message, the user message that submit appended.
RequestPayload ==
    [][(event' = "submit" \/ requests' # requests) =>
        /\ Len(requests') = Len(requests) + 1
        /\ IsPrefix(requests, requests')
        /\ Len(Last(requests').messages) = 1
        /\ Last(requests').messages[1].role = "user"
        /\ Last(requests').messages[1].content = input
        /\ Last(requests').messages[1] = Last(messages')]_vars

\* A second request was issued when the log already held an exchange.
RequestPayloadWitness ==
    /\ event = "submit"
    /\ Len(requests) = 2
    /\ Len(messages) = 3
    /\ messages[2].role = "assistant"
    /\ requests[2].messages = <<messages[3]>>

\* C9 (every exchange resolves): while the service settles every request,
\* loading = true is always followed by loading = false.
EveryExchangeResolves == loading ~> ~loading

\* Loading has been reset after a failure that followed a completed exchange.
EveryExchangeResolvesWitness ==
    /\ ~loading
    /\ event = "failed"
    /\ calls = <<>>
    /\ Len(requests) = 2
    /\ Len(messages) = 3

\* C10 (unique identity): all messages of the log have pairwise distinct ids.
UniqueIds ==
    \A i, j \in 1..Len(messages) : i # j => messages[i].id # messages[j].id

\* The steps in which the user types into the input field.
InputEvents == {"input", "inputDisabled"}

\* C11 (lastError lifecycle): the error is empty initially and whenever
\* loading; it becomes non-empty only in a step that fails an exchange; an
\* accepted submit clears it and nothing else does: typing and rejected
\* submits leave it as it is.
ErrorLifecycle ==
    /\ [](event = "init" => error = "")
    /\ [](loading => error = "")
    /\ [][(error = "" /\ error' # "") =>
            (event' = "failed" /\ \E i \in 1..Len(calls) : Completes(i))]_vars
    /\ [][(event' = "submit") => error' = ""]_vars
    /\ [][(error # "" /\ error' # error) => event' = "submit"]_vars
    /\ [][(event' \in InputEvents \cup {"submitEmpty", "submitDisabled"}) =>
            error' = error]_vars

\* Typing after a failed exchange has left the error text in place.
ErrorLifecycleWitness ==
    /\ event = "input"
    /\ input = <<"x">>
    /\ error = "HTTP error! Status: 500"
    /\ ~loading
    /\ Len(messages) = 1

\* The positions of the log that hold a message of the given role.
WithRole(role) == {k \in 1..Len(messages) : messages[k].role = role}

\* C12 (one request per accepted submit): the number of requests issued
\* equals the number of user messages in the log; an accepted submit issues
\* exactly one request, a rejected submit none, and no other step issues one
\* (a failed request is not sent again).
OneRequestPerSubmit ==
    /\ [](Len(requests) = Cardinality(WithRole("user")))
    /\ [][(event' = "submit") => Len(requests') = Len(requests) + 1]_vars
    /\ [][(event' \in {"submitEmpty", "submitDisabled"}) => requests' = requests]_vars
    /\ [][(requests' # requests) => event' = "submit"]_vars

\* Two exchanges have failed and exactly two requests have been issued.
OneRequestPerSubmitWitness ==
    /\ event = "failed"
    /\ Len(requests) = 2
    /\ Len(messages) = 2
    /\ WithRole("user") = {1, 2}
    /\ calls = <<>>

\* C13 (accepted submit step): a submit of non-blank input t made while not
\* loading appends one user message whose content is t with its surrounding
\* whitespace, empties the input and sets loading, in the same step that
\* issues the request and before the request has settled.
AcceptedSubmitStep ==
    [][(~loading /\ ~WhitespaceOnly(input) /\ event' \in SubmitEvents) =>
        /\ Len(messages') = Len(messages) + 1
        /\ SubSeq(messages', 1, Len(messages)) = messages
        /\ messages'[Len(messages')].role = "user"
        /\ messages'[Len(messages')].content = input
        /\ input' = <<>>
        /\ loading'
        /\ calls' # <<>>
        /\ calls'[Len(calls')].stage = "fetch"]_vars

\* The input " y<tab>" was accepted and is in the log untrimmed.
AcceptedSubmitStepWitness ==
    /\ event = "submit"
    /\ messages # <<>>
    /\ messages[Len(messages)] =
         [id |-> messages[Len(messages)].id, role |-> "user", content |-> <<" ", "y", "\t">>]
    /\ input = <<>>
    /\ loading
    /\ Len(calls) = 1
    /\ calls[1].stage = "fetch"

\* C14 (no empty content): every message of the log, user or assistant, has
\* a content that is present and not the empty text.
NoEmptyContent ==
    \A k \in 1..Len(messages) :
        messages[k].content # <<>> /\ messages[k].content # Undefined

\* The request issued by the i-th suspended invocation: invocations are
\* suspended in the order of their requests and the settled ones are the
\* earlier requests.
RequestOf(i) == requests[Len(requests) - Len(calls) + i]

\* C15 (reply ordering): every assistant message directly follows a user
\* message, which at the time of the append is the one its request carried;
\* so no two assistant messages are adjacent and there are never more
\* assistant messages than user messages.
ReplyOrdering ==
    /\ [](\A k \in WithRole("assistant") : k > 1 /\ messages[k - 1].role = "user")
    /\ [](Cardinality(WithRole("assistant")) <= Cardinality(WithRole("user")))
    /\ [][\A i \in 1..Len(calls) :
            (Completes(i) /\ Len(messages') = Len(messages) + 1) =>
                /\ messages'[Len(messages')].role = "assistant"
                /\ messages # <<>>
                /\ messages[Len(messages)] = RequestOf(i).messages[1]]_vars

\* Two exchanges have each been answered in turn.
ReplyOrderingWitness ==
    /\ event = "reply"
    /\ Len(messages) = 4
    /\ WithRole("user") = {1, 3}
    /\ WithRole("assistant") = {2, 4}
    /\ messages[1].content # messages[3].content

\* Typing the text t takes effect: the input becomes t and the log, loading,
\* the error and the requests in flight stay as they are.
TypingTakesEffect(t) ==
    /\ HandleInputChange(t)
    /\ input' = t
    /\ UNCHANGED <<messages, loading, error, calls, requests>>

\* C16 as stated (setInput in every phase): in every state, loading or not,
\* every text can be typed and becomes the input.
SetInputAnyPhase == \A t \in InputTexts : ENABLED TypingTakesEffect(t)

\* C16 as amended (setInput while not loading): while not loading every text
\* can be typed and becomes the input; while loading the input field is
\* disabled and typing leaves the input as it is; in both cases the log,
\* loading, the error and the requests in flight are unchanged.
SetInputWhenIdle ==
    /\ [](~loading => \A t \in InputTexts : ENABLED TypingTakesEffect(t))
    /\ [][(event' \in InputEvents) =>
            UNCHANGED <<messages, loading, error, calls, requests>>]_vars
    /\ [][(loading /\ event' \in InputEvents) => input' = input]_vars

\* Typing was attempted while a request was in flight, and before that a text
\* was typed while an error was shown.
SetInputWhenIdleWitness ==
    /\ event = "inputDisabled"
    /\ loading
    /\ input = <<>>
    /\ Len(calls) = 1
    /\ Len(messages) = 2

\* C17 (pending tracks the request): loading is true exactly when some
\* request issued by a submit has not yet had its reply or failure processed.
LoadingTracksRequest == loading <=> calls # <<>>

\* A second request has been answered but its body is not yet processed.
LoadingTracksRequestWitness ==
    /\ event = "fetched"
    /\ loading
    /\ Len(calls) = 1
    /\ calls[1].stage = "json"
    /\ Len(requests) = 2
    /\ Len(messages) = 3

====
